---- MODULE Spec2Model ----
(***************************************************************************)
(* A model of task_manager.py: the Student -> MainTask -> SubTask          *)
(* aggregate, its validation rules, its dictionary serialization, the      *)
(* password credential and the StudentDatabase store.                      *)
(*                                                                         *)
(* Python values are modelled as follows.                                  *)
(*   - a str is a TLA+ string; Python's None, where a str is expected, is  *)
(*     the reserved string None (distinct from the str "None");            *)
(*   - a datetime is the integer yyyymmdd (so that > on datetimes is > on  *)
(*     integers); an attribute holding no datetime holds NoDate;           *)
(*   - a list is a sequence, a dict with fixed keys is a record;           *)
(*   - a call that may raise yields [exc |-> <exception name or "none">,   *)
(*     ...] together with the state the call leaves behind.                *)
(* The fields of a record are written in the order TLC keeps them in.      *)
(***************************************************************************)
EXTENDS Integers, Sequences, FiniteSets, TLC

VARIABLES
    student,    \* the Student a session works on
    students,   \* StudentDatabase.students: student_id -> Student
    file,       \* the durable file of the StudentDatabase
    op,         \* the method called last
    raised,     \* the exception that call ended with, "none" when it returned
    ret,        \* what it returned: <<>> for None or nothing, <<v>> for v
    held,       \* the list a caller keeps from search_sub_tasks: <<>> for none
    proc        \* the run of main(): <<position, student id entered,
                \* password attempts made, whether an attempt verified>>

vars == <<student, students, file, op, raised, ret, held, proc>>

\* ------------------------------------------------------------------ bounds
MaxTasks == 2
MaxSubs == 2
MaxSessionTasks == 1

\* ------------------------------------------------------- Python primitives
None == "<None>"

NoDate == 0

\* `if x:` on an Optional[str]
Truthy(x) == x # None /\ x # ""

\* str(x) on an Optional[str]
Str(x) == IF x = None THEN "None" ELSE x

\* datetime.datetime.strptime(s, '%d/%m/%Y') on the date strings of the model:
\* the strings outside the table's domain raise ValueError.
StrptimeTable ==
    ("15/05/2025" :> 20250515) @@ ("01/06/2025" :> 20250601) @@
    ("1/6/2025" :> 20250601) @@ ("10/06/2025" :> 20250610)

StrptimeRaises(s) == s \notin DOMAIN StrptimeTable

Strptime(s) == StrptimeTable[s]

\* d.strftime('%d/%m/%Y'): zero-padded day and month
Strftime(d) ==
    CASE d = 20250515 -> "15/05/2025"
      [] d = 20250601 -> "01/06/2025"
      [] d = 20250610 -> "10/06/2025"

\* ------------------------------------------------------------------ SubTask
\* SubTask.__init__
SubTask_init(details, due_date, priority, class_code, completed) ==
    IF Truthy(due_date) /\ StrptimeRaises(due_date)
    THEN [exc |-> "ValueError"]
    ELSE [exc |-> "none",
          val |-> [details |-> details,
                   due_date |-> IF Truthy(due_date) THEN Strptime(due_date) ELSE NoDate,
                   priority |-> priority,
                   class_code |-> class_code,
                   completed |-> completed]]

\* Mutant of SubTask_mark_as_completed: the flag is flipped.
SubTask_mark_as_completed_flip(s) == [s EXCEPT !.completed = ~@]

\* SubTask.mark_as_completed
SubTask_mark_as_completed(s) == [s EXCEPT !.completed = TRUE]

\* ----------------------------------------------------------------- MainTask
\* MainTask.__init__
MainTask_init(name, due_date, priority, status, class_code) ==
    IF Truthy(due_date) /\ StrptimeRaises(due_date)
    THEN [exc |-> "ValueError"]
    ELSE [exc |-> "none",
          val |-> [due_date |-> IF Truthy(due_date) THEN Strptime(due_date) ELSE NoDate,
                   priority |-> priority,
                   class_code |-> class_code,
                   name |-> name,
                   status |-> status,
                   sub_tasks |-> <<>>]]

\* Mutant of AddSubTaskRejects: `>=` for `>`, a sub-task due on the main
\* task's due date is rejected.
AddSubTaskRejects_ge(m, s) ==
    m.due_date # NoDate /\ s.due_date # NoDate /\ s.due_date >= m.due_date

\* the condition of the raise in MainTask.add_sub_task
AddSubTaskRejects(m, s) ==
    m.due_date # NoDate /\ s.due_date # NoDate /\ s.due_date > m.due_date

\* MainTask.add_sub_task
MainTask_add_sub_task(m, s) ==
    IF AddSubTaskRejects(m, s)
    THEN [exc |-> "ValueError", st |-> m]
    ELSE [exc |-> "none", st |-> [m EXCEPT !.sub_tasks = Append(@, s)]]

\* Mutant of InRange: `<` for the second `<=`, the last position is rejected.
InRange_lt(index, coll) == 1 <= index /\ index < Len(coll)

\* the bounds test `1 <= index <= len(collection)`
InRange(index, coll) == 1 <= index /\ index <= Len(coll)

\* Mutant of DelAt: `del coll[index]`, the element after position index goes
\* (the last one when there is none after it).
DelAt_next(coll, index) ==
    [j \in 1..(Len(coll) - 1) |-> IF j <= index THEN coll[j] ELSE coll[j + 1]]

\* `del coll[index - 1]`
DelAt(coll, index) ==
    [j \in 1..(Len(coll) - 1) |-> IF j < index THEN coll[j] ELSE coll[j + 1]]

\* MainTask.delete_sub_task
MainTask_delete_sub_task(m, sub_task_index) ==
    IF InRange(sub_task_index, m.sub_tasks)
    THEN [exc |-> "none", st |-> [m EXCEPT !.sub_tasks = DelAt(@, sub_task_index)]]
    ELSE [exc |-> "IndexError", st |-> m]

\* MainTask.mark_sub_task_as_completed
MainTask_mark_sub_task_as_completed(m, sub_task_index) ==
    IF InRange(sub_task_index, m.sub_tasks)
    THEN [exc |-> "none",
          st |-> [m EXCEPT !.sub_tasks[sub_task_index] = SubTask_mark_as_completed(@)]]
    ELSE [exc |-> "IndexError", st |-> m]

\* MainTask.edit_sub_task: the assignments happen in the order of the code, so
\* what was assigned before a raise stays assigned.
MainTask_edit_sub_task(m, sub_task_index, details, due_date, priority) ==
    IF InRange(sub_task_index, m.sub_tasks)
    THEN LET s0 == m.sub_tasks[sub_task_index]
             s1 == IF Truthy(details) THEN [s0 EXCEPT !.details = details] ELSE s0
             put(s) == [m EXCEPT !.sub_tasks[sub_task_index] = s]
             prio(s) == IF Truthy(priority) THEN [s EXCEPT !.priority = priority] ELSE s
         IN  IF Truthy(due_date)
             THEN IF StrptimeRaises(due_date)
                  THEN [exc |-> "ValueError", st |-> put(s1)]
                  ELSE IF m.due_date # NoDate /\ Strptime(due_date) > m.due_date
                       THEN [exc |-> "ValueError", st |-> put(s1)]
                       ELSE [exc |-> "none",
                             st |-> put(prio([s1 EXCEPT !.due_date = Strptime(due_date)]))]
             ELSE [exc |-> "none", st |-> put(prio(s1))]
    ELSE [exc |-> "IndexError", st |-> m]

\* MainTask.mark_as_completed
MainTask_mark_as_completed(m) == [m EXCEPT !.status = "Completed"]

\* MainTask.view_sub_tasks: the sub_tasks list itself
MainTask_view_sub_tasks(m) == m.sub_tasks

\* ------------------------------------------------------------------ Student
\* Student.add_task_list
Student_add_task_list(st, task_list) ==
    [st EXCEPT !.task_lists = Append(@, task_list)]

\* Student.delete_task_list
Student_delete_task_list(st, list_index) ==
    IF InRange(list_index, st.task_lists)
    THEN [exc |-> "none", st |-> [st EXCEPT !.task_lists = DelAt(@, list_index)]]
    ELSE [exc |-> "IndexError", st |-> st]

\* Mutant of Student_edit_task_list: `self.status = status` without the
\* `if status:`, an absent status overwrites the field.
Student_edit_task_list_status(st, list_index, name, due_date, priority, status, class_code) ==
    IF InRange(list_index, st.task_lists)
    THEN LET t0 == st.task_lists[list_index]
             t1 == IF Truthy(name) THEN [t0 EXCEPT !.name = name] ELSE t0
             put(t) == [st EXCEPT !.task_lists[list_index] = t]
             t2 == IF Truthy(due_date)
                   THEN [t1 EXCEPT !.due_date = Strptime(due_date)] ELSE t1
             t3 == IF Truthy(priority) THEN [t2 EXCEPT !.priority = priority] ELSE t2
             t4 == [t3 EXCEPT !.status = status]
             t5 == IF Truthy(class_code) THEN [t4 EXCEPT !.class_code = class_code] ELSE t4
         IN  IF Truthy(due_date) /\ StrptimeRaises(due_date)
             THEN [exc |-> "ValueError", st |-> put(t1)]
             ELSE [exc |-> "none", st |-> put(t5)]
    ELSE [exc |-> "IndexError", st |-> st]

\* Student.edit_task_list: as in edit_sub_task, a raise by strptime leaves the
\* name already assigned.
Student_edit_task_list(st, list_index, name, due_date, priority, status, class_code) ==
    IF InRange(list_index, st.task_lists)
    THEN LET t0 == st.task_lists[list_index]
             t1 == IF Truthy(name) THEN [t0 EXCEPT !.name = name] ELSE t0
             put(t) == [st EXCEPT !.task_lists[list_index] = t]
             t2 == IF Truthy(due_date)
                   THEN [t1 EXCEPT !.due_date = Strptime(due_date)] ELSE t1
             t3 == IF Truthy(priority) THEN [t2 EXCEPT !.priority = priority] ELSE t2
             t4 == IF Truthy(status) THEN [t3 EXCEPT !.status = status] ELSE t3
             t5 == IF Truthy(class_code) THEN [t4 EXCEPT !.class_code = class_code] ELSE t4
         IN  IF Truthy(due_date) /\ StrptimeRaises(due_date)
             THEN [exc |-> "ValueError", st |-> put(t1)]
             ELSE [exc |-> "none", st |-> put(t5)]
    ELSE [exc |-> "IndexError", st |-> st]

\* Mutant of Student_view_all_sub_tasks: each main task's sub-tasks are put
\* in front of those collected so far.
Student_view_all_sub_tasks_front(st) ==
    LET all_sub_tasks[j \in 0..Len(st.task_lists)] ==
          IF j = 0 THEN <<>>
          ELSE MainTask_view_sub_tasks(st.task_lists[j]) \o all_sub_tasks[j - 1]
    IN  all_sub_tasks[Len(st.task_lists)]

\* Student.view_all_sub_tasks: a new list, extended with each main task's
\* sub-tasks in the order of task_lists
Student_view_all_sub_tasks(st) ==
    LET all_sub_tasks[j \in 0..Len(st.task_lists)] ==
          IF j = 0 THEN <<>>
          ELSE all_sub_tasks[j - 1] \o MainTask_view_sub_tasks(st.task_lists[j])
    IN  all_sub_tasks[Len(st.task_lists)]

\* ------------------------------------------------------------- credentials
\* hashlib.sha256(x.encode()).hexdigest(): the digest is a collision-free
\* function of its input, modelled as a constructor.
Sha256(x) == <<"sha256", x>>

\* hexdigest()[:16]
Prefix16(h) == <<"prefix16", h>>

\* salt + password, for a salt of 16 characters
Concat(salt, password) == <<salt, password>>

\* A credential string is modelled by the list of its ':'-separated fields,
\* the value of credential.split(':').
Student_hash_password(password) ==
    LET salt == Prefix16(Sha256(password))
    IN  <<Sha256(Concat(salt, password)), salt>>

\* Mutant of Student_verify_password: the digest of password + salt, not of
\* salt + password.
Student_verify_password_swapped(st, password) ==
    IF Len(st.password) # 2
    THEN [exc |-> "ValueError"]
    ELSE [exc |-> "none",
          val |-> (st.password[1] = Sha256(Concat(password, st.password[2])))]

\* Mutant of Student_verify_password: a credential that does not split into
\* two fields is answered with False.
Student_verify_password_lenient(st, password) ==
    IF Len(st.password) # 2
    THEN [exc |-> "none", val |-> FALSE]
    ELSE [exc |-> "none",
          val |-> (st.password[1] = Sha256(Concat(st.password[2], password)))]

\* Student.verify_password: unpacking a split of other than two fields raises
Student_verify_password(st, password) ==
    IF Len(st.password) # 2
    THEN [exc |-> "ValueError"]
    ELSE [exc |-> "none",
          val |-> (st.password[1] = Sha256(Concat(st.password[2], password)))]

\* Student.__init__
Student_init(student_id, password, task_lists, is_hashed) ==
    [task_lists |-> task_lists,
     password |-> IF ~is_hashed THEN Student_hash_password(password) ELSE password,
     student_id |-> student_id]

\* ------------------------------------------------------------ serialization
\* Mutant of SubTask_to_dict: the due date goes through str(), a sub-task
\* without one is written with the string "None".
SubTask_to_dict_str(s) ==
    [details |-> s.details,
     due_date |-> IF s.due_date # NoDate THEN Strftime(s.due_date) ELSE Str(None),
     priority |-> s.priority,
     class_code |-> s.class_code,
     completed |-> s.completed]

\* SubTask.to_dict
SubTask_to_dict(s) ==
    [details |-> s.details,
     due_date |-> IF s.due_date # NoDate THEN Strftime(s.due_date) ELSE None,
     priority |-> s.priority,
     class_code |-> s.class_code,
     completed |-> s.completed]

\* SubTask.from_dict: every field goes through str() before the constructor
SubTask_from_dict(data) ==
    SubTask_init(Str(data.details), Str(data.due_date), Str(data.priority),
                 Str(data.class_code), data.completed)

\* MainTask.to_dict
MainTask_to_dict(m) ==
    [due_date |-> IF m.due_date # NoDate THEN Strftime(m.due_date) ELSE None,
     priority |-> m.priority,
     class_code |-> m.class_code,
     name |-> m.name,
     status |-> m.status,
     sub_tasks |-> [j \in 1..Len(m.sub_tasks) |-> SubTask_to_dict(m.sub_tasks[j])]]

\* MainTask.from_dict: the constructor runs first, then the sub-tasks are
\* built in order; the first exception ends the call.
MainTask_from_dict(data) ==
    LET main == MainTask_init(Str(data.name), Str(data.due_date), Str(data.priority),
                              Str(data.status), Str(data.class_code))
        subs == [j \in 1..Len(data.sub_tasks) |-> SubTask_from_dict(data.sub_tasks[j])]
    IN  IF main.exc # "none" THEN [exc |-> main.exc]
        ELSE IF \E j \in 1..Len(subs) : subs[j].exc # "none"
             THEN [exc |-> subs[CHOOSE j \in 1..Len(subs) :
                                  /\ subs[j].exc # "none"
                                  /\ \A h \in 1..(j - 1) : subs[h].exc = "none"].exc]
             ELSE [exc |-> "none",
                   val |-> [main.val EXCEPT
                              !.sub_tasks = [j \in 1..Len(subs) |-> subs[j].val]]]

\* Student.to_dict
Student_to_dict(st) ==
    [task_lists |-> [j \in 1..Len(st.task_lists) |-> MainTask_to_dict(st.task_lists[j])],
     password |-> st.password]

\* The parameters of Student.__init__ after self
StudentParams == <<"student_id", "password", "task_lists", "is_hashed">>

\* Python's binding of a call's arguments: a call with npos positional
\* arguments and the keyword arguments kwnames raises TypeError when there are
\* more positional arguments than parameters or a keyword names a parameter a
\* positional argument already fills.
CallRaises(params, npos, kwnames) ==
    \/ npos > Len(params)
    \/ \E j \in 1..npos : j <= Len(params) /\ params[j] \in kwnames

\* Student.from_dict: the task lists are built first; then the constructor is
\* called with four positional arguments (student_id, str, data["password"],
\* task_lists) and the keyword is_hashed.
Student_from_dict(student_id, data) ==
    LET lists == [j \in 1..Len(data.task_lists) |-> MainTask_from_dict(data.task_lists[j])]
    IN  IF \E j \in 1..Len(lists) : lists[j].exc # "none"
        THEN [exc |-> lists[CHOOSE j \in 1..Len(lists) :
                              /\ lists[j].exc # "none"
                              /\ \A h \in 1..(j - 1) : lists[h].exc = "none"].exc]
        ELSE IF CallRaises(StudentParams, 4, {"is_hashed"})
             THEN [exc |-> "TypeError"]
             ELSE [exc |-> "none",
                   val |-> Student_init(student_id, data.password,
                                        [j \in 1..Len(lists) |-> lists[j].val], TRUE)]

\* ---------------------------------------------------------- StudentDatabase
\* The durable file is <<>> when it does not exist and <<text>> when it does.
\* json.dump(data, file) writes the JSON text of data; json.load(file) gives
\* the data back from a JSON text and raises JSONDecodeError on any other text.
JsonDump(data) == <<"json", data>>

NotJson == <<"text", "not json">>

JsonLoad(text) ==
    IF text[1] = "json" THEN [exc |-> "none", val |-> text[2]]
                        ELSE [exc |-> "JSONDecodeError"]

\* The body of the try statement of load_students: open, json.load and the
\* dict comprehension over data.items(), which ends with the exception of the
\* first Student.from_dict that raises.
LoadStudentsBody(f) ==
    IF f = <<>> THEN [exc |-> "FileNotFoundError"]
    ELSE LET j == JsonLoad(f[1])
         IN  IF j.exc # "none" THEN [exc |-> j.exc]
             ELSE LET built == [id \in DOMAIN j.val |-> Student_from_dict(id, j.val[id])]
                  IN  IF \E id \in DOMAIN built : built[id].exc # "none"
                      THEN [exc |-> built[CHOOSE id \in DOMAIN built :
                                            built[id].exc # "none"].exc]
                      ELSE [exc |-> "none",
                            val |-> [id \in DOMAIN built |-> built[id].val]]

\* Mutant of StudentDatabase_load_students: without the except clause for
\* json.JSONDecodeError and the one for Exception.
StudentDatabase_load_students_uncaught(f) ==
    LET r == LoadStudentsBody(f)
    IN  IF r.exc = "FileNotFoundError" THEN [exc |-> "none", val |-> <<>>] ELSE r

\* StudentDatabase.load_students: the three except clauses (FileNotFoundError,
\* json.JSONDecodeError, Exception) each return the empty dict.
StudentDatabase_load_students(f) ==
    LET r == LoadStudentsBody(f)
    IN  IF r.exc = "none" THEN r
        ELSE IF r.exc = "FileNotFoundError" THEN [exc |-> "none", val |-> <<>>]
        ELSE IF r.exc = "JSONDecodeError" THEN [exc |-> "none", val |-> <<>>]
        ELSE [exc |-> "none", val |-> <<>>]

\* StudentDatabase.save_students: the file is rewritten with the JSON text of
\* {student_id: student.to_dict()}.
StudentDatabase_save_students(sts, f) ==
    <<JsonDump([id \in DOMAIN sts |-> Student_to_dict(sts[id])])>>

\* Mutant of StudentDatabase_get_student: `self.students[student_id]` for
\* `self.students.get(student_id)`, an unknown id raises KeyError.
StudentDatabase_get_student_index(sts, student_id, password) ==
    IF student_id \notin DOMAIN sts THEN [exc |-> "KeyError", val |-> <<>>]
    ELSE LET v == Student_verify_password(sts[student_id], password)
         IN  IF v.exc # "none" THEN [exc |-> v.exc, val |-> <<>>]
             ELSE IF v.val THEN [exc |-> "none", val |-> <<sts[student_id]>>]
             ELSE [exc |-> "none", val |-> <<>>]

\* StudentDatabase.get_student
StudentDatabase_get_student(sts, student_id, password) ==
    IF student_id \notin DOMAIN sts THEN [exc |-> "none", val |-> <<>>]
    ELSE LET v == Student_verify_password(sts[student_id], password)
         IN  IF v.exc # "none" THEN [exc |-> v.exc, val |-> <<>>]
             ELSE IF v.val THEN [exc |-> "none", val |-> <<sts[student_id]>>]
             ELSE [exc |-> "none", val |-> <<>>]

\* Mutant of StudentDatabase_add_student: `self.students.setdefault(...)`, a
\* record already stored under the id is kept.
StudentDatabase_add_student_keep(sts, f, st) ==
    LET new == sts @@ (st.student_id :> st)
    IN  [students |-> new, file |-> StudentDatabase_save_students(new, f)]

\* StudentDatabase.add_student: the dict entry is set, then the file is saved
StudentDatabase_add_student(sts, f, st) ==
    LET new == (st.student_id :> st) @@ sts
    IN  [students |-> new, file |-> StudentDatabase_save_students(new, f)]

\* ------------------------------------------------------------------- inputs
\* The argument values the operations are called with.
MainNames == {"Essay"}
MainDues == {"01/06/2025"}
EditMainDues == {"15/05/2025"}
SubDetails == {"Draft intro"}
SubDues == {"01/06/2025", "10/06/2025"}
EditSubDues == {"15/05/2025", "10/06/2025"}
Positions(coll) == (-1)..(Len(coll) + 1)

\* the number of sub-tasks of all the main tasks of a student
SubCount(lists) ==
    LET upto[j \in 0..Len(lists)] ==
          IF j = 0 THEN 0 ELSE upto[j - 1] + Len(lists[j].sub_tasks)
    IN  upto[Len(lists)]

\* ----------------------------------------------------------------- aliasing
\* main() works on the Student object the database's dict holds (the one it
\* looked up, or the one it registered with add_student): what a method does
\* to the session's student is done to the dict's entry of that id.
Stored(sts, st) ==
    IF st.student_id \in DOMAIN sts THEN [sts EXCEPT ![st.student_id] = st] ELSE sts

\* The run of main() the operations of a session are called from: student s1
\* is in the menu, having made no password attempt (the account was created
\* in this run).
InMenu == <<"menu", "s1", 0, FALSE>>

\* A held list is [alias |-> i, items |-> <<...>>]: alias is the position of
\* the main task whose sub_tasks list it is, 0 when it is a list of its own.
\* After a method has run on main task i, a held list that is the sub_tasks
\* list of main task i has the items that list has now.  (The items are
\* kept by value: the sessions that hold a list call only add_sub_task and
\* delete_sub_task, which change no field of a SubTask object.)
HeldAfter(h, i, sub_tasks) ==
    IF h # <<>> /\ h[1].alias = i
    THEN <<[alias |-> i, items |-> sub_tasks]>>
    ELSE h

\* After `del self.task_lists[k - 1]`: the main tasks after position k have
\* moved down by one, and a held sub_tasks list of the deleted main task is
\* the list of no main task of the student any more.
HeldAfterDelete(h, k) ==
    IF h = <<>> \/ h[1].alias < k THEN h
    ELSE IF h[1].alias = k THEN <<[alias |-> 0, items |-> h[1].items]>>
    ELSE <<[alias |-> h[1].alias - 1, items |-> h[1].items]>>

\* ------------------------------------------------------------------ actions
\* Each action is one call; op names the method called last and raised the
\* exception the call ended with ("none" when it returned).

\* The state after `Student("s1", "pw1")`
Init ==
    /\ student = Student_init("s1", "pw1", <<>>, FALSE)
    /\ students = <<>>
    /\ file = <<>>
    /\ op = "init"
    /\ raised = "none"
    /\ ret = <<>>
    /\ held = <<>>
    /\ proc = InMenu

\* MainTask(name, due_date, priority, status, class_code) followed by
\* student.add_task_list(task_list)
AddTaskListCall(name, due, prio, status, code) ==
    LET c == MainTask_init(name, due, prio, status, code)
    IN  /\ op' = "add_task_list"
        /\ student' = IF c.exc = "none"
                      THEN Student_add_task_list(student, c.val) ELSE student
        /\ raised' = c.exc
        /\ ret' = <<>>
        /\ students' = Stored(students, student')
        /\ UNCHANGED <<file, held, proc>>

AddTaskList(Names, Dues, Prios, Statuses, Codes) ==
    /\ Len(student.task_lists) < MaxTasks
    /\ \E name \in Names, due \in Dues, prio \in Prios, status \in Statuses, code \in Codes :
         AddTaskListCall(name, due, prio, status, code)

\* student.delete_task_list(k)
DeleteTaskListCall(k) ==
    LET r == Student_delete_task_list(student, k)
    IN  /\ op' = "delete_task_list"
        /\ student' = r.st
        /\ raised' = r.exc
        /\ ret' = <<>>
        /\ students' = Stored(students, student')
        /\ UNCHANGED proc
        /\ held' = IF r.exc = "none" THEN HeldAfterDelete(held, k) ELSE held
        /\ UNCHANGED file

DeleteTaskList == \E k \in Positions(student.task_lists) : DeleteTaskListCall(k)

\* student.edit_task_list(k, name, due_date, priority, status, class_code)
EditTaskListCall(k, name, due, prio, status, code) ==
    LET r == Student_edit_task_list(student, k, name, due, prio, status, code)
    IN  /\ op' = "edit_task_list"
        /\ student' = r.st
        /\ raised' = r.exc
        /\ ret' = <<>>
        /\ students' = Stored(students, student')
        /\ UNCHANGED <<file, held, proc>>

EditTaskList(Names, Dues, Prios, Statuses, Codes) ==
    \E k \in Positions(student.task_lists) :
      \E name \in Names, due \in Dues, prio \in Prios, status \in Statuses, code \in Codes :
        EditTaskListCall(k, name, due, prio, status, code)

\* Mutant of OnMain: every method of a main task ends with save_students.
OnMain_autosave(i, r) ==
    /\ raised' = r.exc
    /\ student' = [student EXCEPT !.task_lists[i] = r.st]
    /\ ret' = <<>>
    /\ students' = Stored(students, student')
    /\ UNCHANGED proc
    /\ held' = HeldAfter(held, i, r.st.sub_tasks)
    /\ file' = StudentDatabase_save_students(students', file)

\* The result r of a method of the main task at position i: the main task is
\* an object of the student's list, mutated in place, and so seen through
\* the database's dict and through a held list that is its sub_tasks list.
OnMain(i, r) ==
    /\ raised' = r.exc
    /\ student' = [student EXCEPT !.task_lists[i] = r.st]
    /\ ret' = <<>>
    /\ students' = Stored(students, student')
    /\ UNCHANGED proc
    /\ held' = HeldAfter(held, i, r.st.sub_tasks)
    /\ UNCHANGED file

\* SubTask(details, due_date, priority, class_code, completed) followed by
\* student.task_lists[i - 1].add_sub_task(sub_task)
AddSubTaskCall(i, details, due, prio, code, done) ==
    LET c == SubTask_init(details, due, prio, code, done)
    IN  /\ op' = "add_sub_task"
        /\ IF c.exc = "none"
           THEN OnMain(i, MainTask_add_sub_task(student.task_lists[i], c.val))
           ELSE /\ raised' = c.exc
                /\ ret' = <<>>
                /\ UNCHANGED <<student, students, file, held, proc>>

AddSubTask(Details, Dues, Prios, Completed) ==
    /\ SubCount(student.task_lists) < MaxSubs
    /\ \E i \in 1..Len(student.task_lists) :
         \E details \in Details, due \in Dues, prio \in Prios, done \in Completed :
           AddSubTaskCall(i, details, due, prio, "ICT120", done)

\* student.task_lists[i - 1].delete_sub_task(k)
DeleteSubTaskCall(i, k) ==
    /\ op' = "delete_sub_task"
    /\ OnMain(i, MainTask_delete_sub_task(student.task_lists[i], k))

DeleteSubTask ==
    \E i \in 1..Len(student.task_lists) :
      \E k \in Positions(student.task_lists[i].sub_tasks) : DeleteSubTaskCall(i, k)

\* student.task_lists[i - 1].mark_sub_task_as_completed(k)
MarkSubTaskAsCompletedCall(i, k) ==
    /\ op' = "mark_sub_task_as_completed"
    /\ OnMain(i, MainTask_mark_sub_task_as_completed(student.task_lists[i], k))

MarkSubTaskAsCompleted ==
    \E i \in 1..Len(student.task_lists) :
      \E k \in Positions(student.task_lists[i].sub_tasks) : MarkSubTaskAsCompletedCall(i, k)

\* student.task_lists[i - 1].edit_sub_task(k, details, due_date, priority)
EditSubTaskCall(i, k, details, due, prio) ==
    /\ op' = "edit_sub_task"
    /\ OnMain(i, MainTask_edit_sub_task(student.task_lists[i], k, details, due, prio))

EditSubTask(Details, Dues, Prios) ==
    \E i \in 1..Len(student.task_lists) :
      \E k \in Positions(student.task_lists[i].sub_tasks) :
        \E details \in Details, due \in Dues, prio \in Prios :
          EditSubTaskCall(i, k, details, due, prio)

\* student.task_lists[i - 1].mark_as_completed()
MarkAsCompletedCall(i) ==
    /\ op' = "mark_as_completed"
    /\ OnMain(i, [exc |-> "none", st |-> MainTask_mark_as_completed(student.task_lists[i])])

MarkAsCompleted == \E i \in 1..Len(student.task_lists) : MarkAsCompletedCall(i)

\* student.view_all_sub_tasks()
ViewAllSubTasks ==
    /\ op' = "view_all_sub_tasks"
    /\ raised' = "none"
    /\ ret' = <<Student_view_all_sub_tasks(student)>>
    /\ UNCHANGED <<student, students, file, held, proc>>

\* Student.from_dict(student.student_id, student.to_dict())
FromDictOfToDict ==
    LET r == Student_from_dict(student.student_id, Student_to_dict(student))
    IN  /\ op' = "from_dict"
        /\ raised' = r.exc
        /\ ret' = IF r.exc = "none" THEN <<r.val>> ELSE <<>>
        /\ UNCHANGED <<student, students, file, held, proc>>

\* The operations of a session on one student
Next ==
    \/ AddTaskList(MainNames, MainDues, {"High"}, {"Not Started"}, {None})
    \/ DeleteTaskList
    \/ EditTaskList({None}, EditMainDues, {None}, {None}, {None})
    \/ AddSubTask(SubDetails, SubDues, {"Medium"}, {FALSE})
    \/ DeleteSubTask
    \/ MarkSubTaskAsCompleted
    \/ EditSubTask({None}, EditSubDues, {None})
    \/ FromDictOfToDict

Spec == Init /\ [][Next]_vars

\* A session on the sub-tasks of one main task, with the full range of
\* sub-task arguments.
OneMainDues == {"01/06/2025"}
OneSubDues == {None, "15/05/2025", "01/06/2025", "10/06/2025"}
OneEditDetails == {None, "", "Final"}
OneEditDues == {None, "", "15/05/2025", "10/06/2025", "junk"}
OneEditPrios == {None, "High"}

\* The state after `Student("s1", "pw1")` and one add_task_list
InitMain ==
    /\ \E due \in OneMainDues :
         student = Student_add_task_list(
                     Student_init("s1", "pw1", <<>>, FALSE),
                     MainTask_init("Essay", due, "High", "Not Started", "ICT120").val)
    /\ students = <<>>
    /\ file = <<>>
    /\ op = "add_task_list"
    /\ raised = "none"
    /\ ret = <<>>
    /\ held = <<>>
    /\ proc = InMenu

NextMain ==
    \/ AddSubTask({"Draft intro"}, OneSubDues, {"Medium"}, {FALSE})
    \/ DeleteSubTask
    \/ EditSubTask(OneEditDetails, OneEditDues, OneEditPrios)

SpecMain == InitMain /\ [][NextMain]_vars

\* ------------------------------------------------------- the store's session
StudentIds == {"s1", "s2"}
Passwords == {"pw1", "pw2"}

\* a stored credential without the ':' separator
Malformed == <<"0123abcd">>

\* The files a StudentDatabase may be constructed on: none, a text that is
\* not JSON, and the JSON text of the empty mapping; __init__ calls
\* load_students on it and students is what that returns.
InitStore ==
    /\ file \in {<<>>, <<NotJson>>, <<JsonDump(<<>>)>>}
    /\ LET r == StudentDatabase_load_students(file)
       IN  /\ raised = r.exc
           /\ students = IF r.exc = "none" THEN r.val ELSE <<>>
    /\ student = Student_init("s1", "pw1", <<>>, FALSE)
    /\ op = "load_students"
    /\ ret = <<>>
    /\ held = <<>>
    /\ proc = InMenu

\* database.add_student(st)
AddStudentCall(st) ==
    LET r == StudentDatabase_add_student(students, file, st)
    IN  /\ op' = "add_student"
        /\ students' = r.students
        /\ file' = r.file
        /\ raised' = "none"
        /\ ret' = <<>>
        /\ UNCHANGED <<student, held, proc>>

\* Student(student_id, password) followed by database.add_student(student)
AddStudent ==
    \E id \in StudentIds, p \in Passwords :
      AddStudentCall(Student_init(id, p, <<>>, FALSE))

\* add_student of a Student built with is_hashed=True from a stored
\* credential that has no separator
AddStudentMalformed ==
    \E id \in StudentIds : AddStudentCall(Student_init(id, Malformed, <<>>, TRUE))

\* database.save_students()
SaveStudents ==
    /\ op' = "save_students"
    /\ file' = StudentDatabase_save_students(students, file)
    /\ raised' = "none"
    /\ ret' = <<>>
    /\ UNCHANGED <<student, students, held, proc>>

\* StudentDatabase(filename) on the same file: a new process's store
LoadStudents ==
    LET r == StudentDatabase_load_students(file)
    IN  /\ op' = "load_students"
        /\ raised' = r.exc
        /\ students' = IF r.exc = "none" THEN r.val ELSE students
        /\ ret' = <<>>
        /\ UNCHANGED <<student, file, held, proc>>

\* database.get_student(id, password)
GetStudentCall(id, password) ==
    LET r == StudentDatabase_get_student(students, id, password)
    IN  /\ op' = "get_student"
        /\ raised' = r.exc
        /\ ret' = r.val
        /\ UNCHANGED <<student, students, file, held, proc>>

GetStudent == \E id \in StudentIds, password \in Passwords : GetStudentCall(id, password)

\* database.students[id].verify_password(password)
VerifyPasswordCall(id, password) ==
    LET r == Student_verify_password(students[id], password)
    IN  /\ op' = "verify_password"
        /\ raised' = r.exc
        /\ ret' = IF r.exc = "none" THEN <<r.val>> ELSE <<>>
        /\ UNCHANGED <<student, students, file, held, proc>>

VerifyPassword ==
    \E id \in DOMAIN students, password \in Passwords : VerifyPasswordCall(id, password)

NextStore ==
    \/ AddStudent
    \/ AddStudentMalformed
    \/ SaveStudents
    \/ LoadStudents
    \/ GetStudent
    \/ VerifyPassword

SpecStore == InitStore /\ [][NextStore]_vars

\* ------------------------------------------------ the task menu's operations
\* Every operation of the task menu on main tasks and sub-tasks, sub-tasks
\* created open and created completed.
NextTasks ==
    \/ AddTaskList(MainNames, MainDues, {"High"}, {"Not Started"}, {None})
    \/ DeleteTaskList
    \/ EditTaskList({None}, MainDues, {None}, {None}, {None})
    \/ AddSubTask(SubDetails, EditMainDues, {"Medium"}, {FALSE, TRUE})
    \/ DeleteSubTask
    \/ MarkSubTaskAsCompleted
    \/ EditSubTask({None, "Final"}, {None, "15/05/2025"}, {None})
    \/ MarkAsCompleted
    \/ ViewAllSubTasks

SpecTasks == Init /\ [][NextTasks]_vars

\* ------------------------------------------------------- editing main tasks
\* The arguments of edit_task_list: each field absent (None), blank ("") or
\* provided.
EditNames == {None, "Thesis"}
EditDues == {"", "15/05/2025"}
EditPrios == {None, "Low"}
EditStatuses == {"", "In Progress"}
EditCodes == {None, "ICT999"}

\* A student with two main tasks, the first holding a sub-task
InitEdit ==
    /\ LET sub == SubTask_init("Draft intro", "15/05/2025", "Medium", "ICT120", FALSE).val
           m1 == MainTask_add_sub_task(
                   MainTask_init("Essay", "01/06/2025", "High", "Not Started", "ICT120").val,
                   sub).st
           m2 == MainTask_init("Exam prep", None, "Low", "In Progress", None).val
       IN  student = Student_add_task_list(
                       Student_add_task_list(Student_init("s1", "pw1", <<>>, FALSE), m1),
                       m2)
    /\ students = <<>>
    /\ file = <<>>
    /\ op = "add_task_list"
    /\ raised = "none"
    /\ ret = <<>>
    /\ held = <<>>
    /\ proc = InMenu

NextEdit == EditTaskList(EditNames, EditDues, EditPrios, EditStatuses, EditCodes)

SpecEdit == InitEdit /\ [][NextEdit]_vars

\* ------------------------------------------------------------------ search
\* str.lower() on the strings of the model
LowerTable ==
    ("Draft intro" :> "draft intro") @@ ("Final" :> "final") @@
    ("DRAFT" :> "draft") @@ ("final" :> "final")

Lower(s) == LowerTable[s]

\* `needle in hay` on the lower-case strings of the model
Contains(needle, hay) ==
    <<needle, hay>> \in {<<"draft", "draft intro">>, <<"final", "final">>}

\* MainTask.search_sub_tasks: with a keyword, a new list of the sub-tasks
\* whose details contain it, case ignored; without one (None or ""),
\* self.sub_tasks itself.  alias tells whether the list returned is the
\* sub_tasks list.
MainTask_search_sub_tasks(m, keyword) ==
    IF Truthy(keyword)
    THEN [alias |-> FALSE,
          items |-> SelectSeq(m.sub_tasks,
                              LAMBDA s : Contains(Lower(keyword), Lower(s.details)))]
    ELSE [alias |-> TRUE, items |-> m.sub_tasks]

\* results = student.task_lists[i - 1].search_sub_tasks(keyword=keyword),
\* the caller keeping the list
SearchSubTasksCall(i, keyword) ==
    LET r == MainTask_search_sub_tasks(student.task_lists[i], keyword)
    IN  /\ op' = "search_sub_tasks"
        /\ raised' = "none"
        /\ ret' = <<r.items>>
        /\ UNCHANGED proc
        /\ held' = <<[alias |-> IF r.alias THEN i ELSE 0, items |-> r.items]>>
        /\ UNCHANGED <<student, students, file>>

SearchSubTasks(Keywords) ==
    \E i \in 1..Len(student.task_lists), keyword \in Keywords :
      SearchSubTasksCall(i, keyword)

SearchDetails == {"Draft intro", "Final"}
SearchKeywords == {None, "", "DRAFT", "final"}

\* Searches of one main task between add_sub_task and delete_sub_task calls
NextSearch ==
    \/ AddSubTask(SearchDetails, {None}, {"Medium"}, {FALSE})
    \/ DeleteSubTask
    \/ SearchSubTasks(SearchKeywords)

SpecSearch == InitMain /\ [][NextSearch]_vars

\* ------------------------------------------------------ to_dict and from_dict
\* student.task_lists[i - 1].to_dict()
MainTaskToDictCall(i) ==
    /\ op' = "main_to_dict"
    /\ raised' = "none"
    /\ ret' = <<MainTask_to_dict(student.task_lists[i])>>
    /\ UNCHANGED <<student, students, file, held, proc>>

MainTaskToDict == \E i \in 1..Len(student.task_lists) : MainTaskToDictCall(i)

\* student.task_lists[i - 1].sub_tasks[j - 1].to_dict()
SubTaskToDictCall(i, j) ==
    /\ op' = "sub_to_dict"
    /\ raised' = "none"
    /\ ret' = <<SubTask_to_dict(student.task_lists[i].sub_tasks[j])>>
    /\ UNCHANGED <<student, students, file, held, proc>>

SubTaskToDict ==
    \E i \in 1..Len(student.task_lists) :
      \E j \in 1..Len(student.task_lists[i].sub_tasks) : SubTaskToDictCall(i, j)

\* MainTask.from_dict(m.to_dict()) for the main task m at position i
MainTaskFromDictCall(i) ==
    LET r == MainTask_from_dict(MainTask_to_dict(student.task_lists[i]))
    IN  /\ op' = "main_from_dict"
        /\ raised' = r.exc
        /\ ret' = IF r.exc = "none" THEN <<r.val>> ELSE <<>>
        /\ UNCHANGED <<student, students, file, held, proc>>

MainTaskFromDict == \E i \in 1..Len(student.task_lists) : MainTaskFromDictCall(i)

\* SubTask.from_dict(s.to_dict()) for the sub-task s at position j of main
\* task i
SubTaskFromDictCall(i, j) ==
    LET r == SubTask_from_dict(SubTask_to_dict(student.task_lists[i].sub_tasks[j]))
    IN  /\ op' = "sub_from_dict"
        /\ raised' = r.exc
        /\ ret' = IF r.exc = "none" THEN <<r.val>> ELSE <<>>
        /\ UNCHANGED <<student, students, file, held, proc>>

SubTaskFromDict ==
    \E i \in 1..Len(student.task_lists) :
      \E j \in 1..Len(student.task_lists[i].sub_tasks) : SubTaskFromDictCall(i, j)

\* The constructor arguments of the serialized tasks: with and without a due
\* date, with and without a class code, a date string without zero padding,
\* a priority outside the menu's three.
DictMainDues == {None, "1/6/2025"}
DictPrios == {"High", "Urgent"}
DictCodes == {None, "ICT120"}
DictSubDues == {None, "15/05/2025"}

NextDict ==
    \/ AddTaskList(MainNames, DictMainDues, DictPrios, {"Not Started"}, DictCodes)
    \/ AddSubTask(SubDetails, DictSubDues, {"Medium"}, {FALSE})
    \/ MainTaskToDict
    \/ SubTaskToDict
    \/ MainTaskFromDict
    \/ SubTaskFromDict

SpecDict == Init /\ [][NextDict]_vars

\* ------------------------------------------------- a session of main() on disk
\* main() on a machine without the file, for an id that has no account: the
\* database is empty, the Student is created and add_student registers it.
InitSession ==
    /\ student = Student_init("s1", "pw1", <<>>, FALSE)
    /\ LET r == StudentDatabase_add_student(StudentDatabase_load_students(<<>>).val,
                                            <<>>, student)
       IN  students = r.students /\ file = r.file
    /\ op = "add_student"
    /\ raised = "none"
    /\ ret = <<>>
    /\ held = <<>>
    /\ proc = InMenu

\* create_main_task in the session: the file holds a state the student was
\* in earlier, so the session keeps to MaxSessionTasks main tasks.
SessionAddTaskList ==
    /\ Len(student.task_lists) < MaxSessionTasks
    /\ AddTaskList(MainNames, MainDues, {"High"}, {"Not Started"}, {None})

\* The menu's operations on the logged-in student, and Save.
NextSession ==
    \/ SessionAddTaskList
    \/ DeleteTaskList
    \/ EditTaskList({None}, MainDues, {None}, {None}, {None})
    \/ AddSubTask(SubDetails, EditMainDues, {"Medium"}, {FALSE})
    \/ DeleteSubTask
    \/ MarkSubTaskAsCompleted
    \/ EditSubTask({None}, EditMainDues, {None})
    \/ ViewAllSubTasks
    \/ SaveStudents

SpecSession == InitSession /\ [][NextSession]_vars

\* -------------------------------------------------------------------- main
\* main(), run after run on the same durable file.  A run starts with
\* StudentDatabase(), which loads the file, asks for a student id and looks
\* it up in database.students; the menu is left by Save and Exit or by Exit
\* without Saving, and the next run starts from the file as it is then.

\* The for/else loop of main's login: up to three passwords are read and
\* verified against the student found; the loop breaks at the first that
\* verifies, and after the third failure the else clause calls exit().  An
\* exception of verify_password is not caught.  The result is
\* <<position reached, attempts made, whether one verified>>.
MaxAttempts == 3
Main_login(st, passwords) ==
    LET verify(k) == Student_verify_password(st, passwords[k])
        \* attempt k ends the loop: verify_password raises, or it verifies
        ends(k) == verify(k).exc # "none" \/ verify(k).val
        made == IF \E k \in 1..MaxAttempts : ends(k)
                THEN CHOOSE k \in 1..MaxAttempts :
                       ends(k) /\ \A j \in 1..(k - 1) : ~ends(j)
                ELSE MaxAttempts
        last == verify(made)
    IN  IF last.exc # "none" THEN <<"raised", made, FALSE>>
        ELSE IF last.val THEN <<"menu", made, TRUE>>
        ELSE <<"exited", made, FALSE>>

\* main() after StudentDatabase(): the id is looked up in the loaded store;
\* an id found goes through the login loop, an id not found is offered a new
\* account, which add_student registers and saves.
Main_body(database, student_id, passwords, create_new, password) ==
    IF student_id \in DOMAIN database
    THEN LET r == Main_login(database[student_id], passwords)
         IN  /\ proc' = <<IF r[1] = "menu" THEN "menu" ELSE "exited",
                          student_id, r[2], r[3]>>
             /\ raised' = IF r[1] = "raised" THEN "ValueError" ELSE "none"
             /\ student' = IF r[1] = "menu" THEN database[student_id] ELSE student
             /\ students' = database
             /\ UNCHANGED file
    ELSE IF create_new = "yes"
    THEN LET r == StudentDatabase_add_student(
                      database, file, Student_init(student_id, password, <<>>, FALSE))
         IN  /\ proc' = <<"menu", student_id, 0, FALSE>>
             /\ raised' = "none"
             /\ student' = r.students[student_id]
             /\ students' = r.students
             /\ file' = r.file
    ELSE /\ proc' = <<"exited", student_id, 0, FALSE>>
         /\ raised' = "none"
         /\ students' = database
         /\ UNCHANGED <<student, file>>

\* main() from its start to the main menu or to exit(): the passwords are
\* the ones typed at the login prompts, create_new the answer to "would you
\* like to create a new student", password the one typed for the new account.
MainCall(student_id, passwords, create_new, password) ==
    /\ proc[1] \in {"start", "exited"}
    /\ op' = "main"
    /\ ret' = <<>>
    /\ held' = <<>>
    /\ Main_body(StudentDatabase_load_students(file).val,
                 student_id, passwords, create_new, password)

LoginPasswords == [1..MaxAttempts -> Passwords]
Answers == {"yes", "no"}

Main ==
    \E student_id \in StudentIds, passwords \in LoginPasswords,
       create_new \in Answers, password \in Passwords :
      MainCall(student_id, passwords, create_new, password)

\* Main menu, 1 (Task Management): create_main_task for the student of the run
MenuAddTaskList ==
    /\ proc[1] = "menu"
    /\ SessionAddTaskList

\* Main menu, 1 (Task Management): add_sub_task for the student of the run
MenuAddSubTask ==
    /\ proc[1] = "menu"
    /\ AddSubTask(SubDetails, EditMainDues, {"Medium"}, {FALSE})

\* Main menu, 2 (Save and Exit): save_students, then the loop is left
SaveAndExit ==
    /\ proc[1] = "menu"
    /\ op' = "save_students"
    /\ file' = StudentDatabase_save_students(students, file)
    /\ raised' = "none"
    /\ ret' = <<>>
    /\ proc' = <<"exited", proc[2], proc[3], proc[4]>>
    /\ UNCHANGED <<student, students, held>>

\* Main menu, 3 (Exit without Saving)
ExitWithoutSaving ==
    /\ proc[1] = "menu"
    /\ op' = "exit"
    /\ raised' = "none"
    /\ ret' = <<>>
    /\ proc' = <<"exited", proc[2], proc[3], proc[4]>>
    /\ UNCHANGED <<student, students, file, held>>

\* Before the first run there is no file; student stands for the variable
\* main has not assigned yet.
InitLogin ==
    /\ student = Student_init("s1", "pw1", <<>>, FALSE)
    /\ students = <<>>
    /\ file = <<>>
    /\ op = "init"
    /\ raised = "none"
    /\ ret = <<>>
    /\ held = <<>>
    /\ proc = <<"start", "s1", 0, FALSE>>

NextLogin ==
    \/ Main
    \/ MenuAddTaskList
    \/ MenuAddSubTask
    \/ SaveAndExit
    \/ ExitWithoutSaving

SpecLogin == InitLogin /\ [][NextLogin]_vars

\* ------------------------------------------------------------------- claims
\* the sub-tasks of main task m respect m's due date
Contained(m) ==
    \A j \in 1..Len(m.sub_tasks) :
      (m.due_date # NoDate /\ m.sub_tasks[j].due_date # NoDate)
        => m.sub_tasks[j].due_date <= m.due_date

\* C1: in every state reachable by the core operations on a Student, every
\* sub-task with a due date, in a main task with a due date, is due no later
\* than its main task.
C1_DueDateContainment ==
    \A i \in 1..Len(student.task_lists) : Contained(student.task_lists[i])

C3_EditSubTaskAtomic ==
    [][op' = "edit_sub_task" =>
        \A i \in 1..Len(student.task_lists) :
          \A k \in 1..Len(student.task_lists[i].sub_tasks) :
            \A details \in OneEditDetails, due \in OneEditDues, prio \in OneEditPrios :
              LET m == student.task_lists[i]
              IN  ( /\ EditSubTaskCall(i, k, details, due, prio)
                    /\ Truthy(due)
                    /\ \/ StrptimeRaises(due)
                       \/ (m.due_date # NoDate /\ Strptime(due) > m.due_date) )
                  => /\ raised' # "none"
                     /\ student'.task_lists[i].sub_tasks[k] = m.sub_tasks[k]]_vars

\* position k is outside [1, length] of the collection
OutOfRange(k, coll) == k < 1 \/ k > Len(coll)

\* what the claim requires of a position-addressed call at position k of coll
BoundsChecked(k, coll) ==
    /\ OutOfRange(k, coll) => (raised' = "IndexError" /\ student' = student)
    /\ ~OutOfRange(k, coll) => raised' # "IndexError"

\* C4: delete_sub_task, mark_sub_task_as_completed, edit_sub_task,
\* delete_task_list and edit_task_list reject a position that is 0, negative
\* or greater than the collection's length with IndexError and leave the
\* whole aggregate unchanged; a position in [1, length] is never rejected as
\* out of range.  (Each line reads "the step is not that call, or the call
\* is bounds-checked": the call implies BoundsChecked.)
C4_PositionsBoundsChecked ==
    [][/\ op' = "delete_task_list" =>
            \A k \in Positions(student.task_lists) :
              BoundsChecked(k, student.task_lists) \/ ~DeleteTaskListCall(k)
       /\ op' = "edit_task_list" =>
            \A k \in Positions(student.task_lists), due \in EditMainDues :
              \/ BoundsChecked(k, student.task_lists)
              \/ ~EditTaskListCall(k, None, due, None, None, None)
       /\ op' = "delete_sub_task" =>
            \A i \in 1..Len(student.task_lists) :
              \A k \in Positions(student.task_lists[i].sub_tasks) :
                \/ BoundsChecked(k, student.task_lists[i].sub_tasks)
                \/ ~DeleteSubTaskCall(i, k)
       /\ op' = "mark_sub_task_as_completed" =>
            \A i \in 1..Len(student.task_lists) :
              \A k \in Positions(student.task_lists[i].sub_tasks) :
                \/ BoundsChecked(k, student.task_lists[i].sub_tasks)
                \/ ~MarkSubTaskAsCompletedCall(i, k)
       /\ op' = "edit_sub_task" =>
            \A i \in 1..Len(student.task_lists) :
              \A k \in Positions(student.task_lists[i].sub_tasks) :
                \/ BoundsChecked(k, student.task_lists[i].sub_tasks)
                \/ \A due \in EditSubDues : ~EditSubTaskCall(i, k, None, due, None)]_vars

\* C4 witness: with two main tasks, one holding a sub-task, a sub-task edit
\* was rejected as out of range.
C4_Witness ==
    /\ op = "edit_sub_task"
    /\ raised = "IndexError"
    /\ Len(student.task_lists) = 2
    /\ \E i \in 1..2 : Len(student.task_lists[i].sub_tasks) > 0

\* the collection after is the collection before without its element at k:
\* one shorter, positions below k kept, positions above k moved down by one
Removed(before, k, after) ==
    /\ Len(after) = Len(before) - 1
    /\ \A j \in 1..(k - 1) : after[j] = before[j]
    /\ \A j \in (k + 1)..Len(before) : after[j - 1] = before[j]

\* C5: delete_sub_task and delete_task_list at a position k in [1, n] leave a
\* collection of length n - 1: the element at k is removed, those before it
\* keep their positions, those after it move down by one in the same order.
C5_DeleteShifts ==
    [][/\ op' = "delete_task_list" =>
            \A k \in 1..Len(student.task_lists) :
              DeleteTaskListCall(k)
                => Removed(student.task_lists, k, student'.task_lists)
       /\ op' = "delete_sub_task" =>
            \A i \in 1..Len(student.task_lists) :
              \A k \in 1..Len(student.task_lists[i].sub_tasks) :
                DeleteSubTaskCall(i, k)
                  => Removed(student.task_lists[i].sub_tasks, k,
                             student'.task_lists[i].sub_tasks)]_vars

\* C5 witness: a delete_task_list has removed one of MaxTasks main tasks, and
\* a main task that is left holds a sub-task.
C5_Witness ==
    /\ op = "delete_task_list"
    /\ raised = "none"
    /\ Len(student.task_lists) = MaxTasks - 1
    /\ \E i \in 1..Len(student.task_lists) : Len(student.task_lists[i].sub_tasks) > 0

\* C6: Student.from_dict(i, x.to_dict()) returns a Student with id i, the
\* stored credential of x and the task lists of x, in order, with the same
\* fields and sub-tasks.
C6_StudentRoundTrip ==
    op = "from_dict" => (raised = "none" /\ ret = <<student>>)

\* the mapping the durable file holds, when it holds the JSON text of one
FileData == file[1][2]

FileIsJson == file # <<>> /\ JsonLoad(file[1]).exc = "none"

\* C7: after save_students has written a store holding student s registered
\* with password p, a new StudentDatabase on the same file contains s and its
\* get_student(s, p) returns a Student whose student_id is s.
C7_SaveThenLoad ==
    (op = "load_students" /\ FileIsJson) =>
      \A s \in DOMAIN FileData, p \in Passwords :
        FileData[s].password = Student_hash_password(p) =>
          /\ s \in DOMAIN students
          /\ LET r == StudentDatabase_get_student(students, s, p)
             IN  r.exc = "none" /\ r.val # <<>> /\ r.val[1].student_id = s

\* C8: load_students never ends with an exception, and returns the empty
\* mapping when the file does not exist and when its content is not JSON.
C8_LoadNeverRaises ==
    op = "load_students" =>
      /\ raised = "none"
      /\ (file = <<>> \/ file = <<NotJson>>) => students = <<>>

\* C8 witness: a StudentDatabase was constructed on a file that is not JSON.
C8_Witness == op = "load_students" /\ file = <<NotJson>> /\ students = <<>>

\* C9: a Student created with password p verifies p and verifies no other
\* password q.
C9_VerifyIffSamePassword ==
    [][op' = "verify_password" =>
        \A id \in DOMAIN students, p \in Passwords, q \in Passwords :
          ( /\ students[id].password = Student_hash_password(p)
            /\ VerifyPasswordCall(id, q) )
          => (raised' = "none" /\ ret' = <<p = q>>)]_vars

\* C9 witness: two students with different passwords are stored, and a
\* verify_password has returned False.
C9_Witness ==
    /\ op = "verify_password"
    /\ ret = <<FALSE>>
    /\ DOMAIN students = StudentIds
    /\ \E p \in Passwords, q \in Passwords :
         /\ p # q
         /\ students["s1"].password = Student_hash_password(p)
         /\ students["s2"].password = Student_hash_password(q)

\* C10: get_student(id, password) returns the Student stored under id iff id
\* is in the store and the password verifies against its credential; for an
\* unknown id and for a wrong password it returns None alike; the store and
\* the file are unchanged.
C10_GetStudent ==
    [][op' = "get_student" =>
        \A id \in StudentIds, password \in Passwords :
          GetStudentCall(id, password) =>
            LET present == id \in DOMAIN students
                v == IF present THEN Student_verify_password(students[id], password)
                                ELSE [exc |-> "none", val |-> FALSE]
                verifies == v.exc = "none" /\ v.val
                wrong == v.exc = "none" /\ ~v.val
            IN  /\ (present /\ verifies) => (raised' = "none" /\ ret' = <<students[id]>>)
                /\ (~present \/ wrong) => (raised' = "none" /\ ret' = <<>>)
                /\ ret' # <<>> => (present /\ verifies)
                /\ students' = students
                /\ file' = file]_vars

\* C10 witness: get_student has returned None from a store that holds one of
\* the two ids, so that an unknown id and a wrong password are both possible.
C10_Witness ==
    /\ op = "get_student"
    /\ raised = "none"
    /\ ret = <<>>
    /\ DOMAIN students # {}
    /\ DOMAIN students # StudentIds

\* the Students the store's session registers
Registrants ==
    {Student_init(id, p, <<>>, FALSE) : id \in StudentIds, p \in Passwords}
      \cup {Student_init(id, Malformed, <<>>, TRUE) : id \in StudentIds}

C17_MalformedCredentialIsAnError ==
    [][/\ op' = "verify_password" =>
            \A id \in DOMAIN students, q \in Passwords :
              VerifyPasswordCall(id, q) =>
                IF Len(students[id].password) # 2
                THEN raised' = "ValueError" /\ ret' # <<FALSE>>
                ELSE students[id].password # Student_hash_password(q)
                       => (raised' = "none" /\ ret' = <<FALSE>>)
       /\ op' = "get_student" =>
            \A id \in DOMAIN students, q \in Passwords :
              GetStudentCall(id, q) =>
                IF Len(students[id].password) # 2
                THEN raised' = "ValueError"
                ELSE students[id].password # Student_hash_password(q)
                       => (raised' = "none" /\ ret' = <<>>)]_vars

\* C17 witness: get_student has ended with ValueError on a store in which
\* one student holds a malformed credential and the other a well-formed one.
C17_Witness ==
    /\ op = "get_student"
    /\ raised = "ValueError"
    /\ DOMAIN students = StudentIds
    /\ \E id \in StudentIds : Len(students[id].password) = 2

C13_TaskRoundTrip ==
    [][/\ op' = "main_from_dict" =>
            \A i \in 1..Len(student.task_lists) :
              MainTaskFromDictCall(i) =>
                /\ raised' = "none"
                /\ MainTask_to_dict(ret'[1]) = MainTask_to_dict(student.task_lists[i])
       /\ op' = "sub_from_dict" =>
            \A i \in 1..Len(student.task_lists) :
              \A j \in 1..Len(student.task_lists[i].sub_tasks) :
                SubTaskFromDictCall(i, j) =>
                  /\ raised' = "none"
                  /\ SubTask_to_dict(ret'[1])
                       = SubTask_to_dict(student.task_lists[i].sub_tasks[j])]_vars

\* the date strings of the form dd/mm/yyyy, day and month of two digits
DdMmYyyy == {"15/05/2025", "01/06/2025", "10/06/2025"}

\* the due_date field of the dict written for a task due on d
DueDateWritten(field, d) ==
    IF d = NoDate
    THEN field = None /\ field # "None" /\ field # ""
    ELSE field \in DdMmYyyy /\ Strptime(field) = d

\* C14: the dict of a SubTask or MainTask without a due date has a due_date
\* that is null, not the string "None" and not the empty string; the dict of
\* one with a due date has that date in the form dd/mm/yyyy.
C14_DueDateSerialized ==
    [][/\ op' = "main_to_dict" =>
            \A i \in 1..Len(student.task_lists) :
              MainTaskToDictCall(i) =>
                LET m == student.task_lists[i]
                IN  /\ DueDateWritten(ret'[1].due_date, m.due_date)
                    /\ Len(ret'[1].sub_tasks) = Len(m.sub_tasks)
                    /\ \A j \in 1..Len(m.sub_tasks) :
                         DueDateWritten(ret'[1].sub_tasks[j].due_date,
                                        m.sub_tasks[j].due_date)
       /\ op' = "sub_to_dict" =>
            \A i \in 1..Len(student.task_lists) :
              \A j \in 1..Len(student.task_lists[i].sub_tasks) :
                SubTaskToDictCall(i, j) =>
                  DueDateWritten(ret'[1].due_date,
                                 student.task_lists[i].sub_tasks[j].due_date)]_vars

\* C14 witness: the dict of a main task created with the due date "1/6/2025"
\* holds "01/06/2025", and holds a sub-task whose due_date is null.
C14_Witness ==
    /\ op = "main_to_dict"
    /\ ret[1].due_date = "01/06/2025"
    /\ \E j \in 1..Len(ret[1].sub_tasks) : ret[1].sub_tasks[j].due_date = None

Statuses == {"Not Started", "In Progress", "Completed"}
Priorities == {"High", "Medium", "Low"}

\* C18: in every state reached by constructor, deserialization, edit and
\* mark_as_completed calls with arbitrary string arguments, every main
\* task's status is one of Not Started, In Progress, Completed and every
\* main task's and sub-task's priority is one of High, Medium, Low.
C18_StatusAndPriorityVocabulary ==
    \A i \in 1..Len(student.task_lists) :
      LET m == student.task_lists[i]
      IN  /\ m.status \in Statuses
          /\ m.priority \in Priorities
          /\ \A j \in 1..Len(m.sub_tasks) : m.sub_tasks[j].priority \in Priorities

\* C15: the sequence search_sub_tasks returned, for every keyword, an absent
\* and an empty one included, is not changed by a later add_sub_task or
\* delete_sub_task on the same main task.
C15_SearchReturnsSnapshot ==
    [][(held # <<>> /\ op' \in {"add_sub_task", "delete_sub_task"}) =>
         (held' # <<>> /\ held'[1].items = held[1].items)]_vars

\* the number of sub-tasks of the main tasks before position i
Offset(lists, i) == SubCount(SubSeq(lists, 1, i - 1))

\* C16: view_all_sub_tasks returns the sub-tasks of all the student's main
\* tasks, in main-task order and within a main task in sub-task order; its
\* length is the sum of the sub-task counts; the call changes no task list
\* and no sub-task sequence.
C16_ViewAllSubTasks ==
    [][op' = "view_all_sub_tasks" =>
         LET lists == student.task_lists
             all == ret'[1]
         IN  /\ raised' = "none"
             /\ Len(all) = SubCount(lists)
             /\ \A i \in 1..Len(lists) :
                  \A j \in 1..Len(lists[i].sub_tasks) :
                    all[Offset(lists, i) + j] = lists[i].sub_tasks[j]
             /\ student' = student]_vars

\* C16 witness: view_all_sub_tasks has returned the sub-tasks of two main
\* tasks, the first main task's sub-task differing from the second's.
C16_Witness ==
    /\ op = "view_all_sub_tasks"
    /\ Len(student.task_lists) = 2
    /\ Len(student.task_lists[1].sub_tasks) = 1
    /\ Len(student.task_lists[2].sub_tasks) = 1
    /\ student.task_lists[1].sub_tasks[1] # student.task_lists[2].sub_tasks[1]
    /\ Len(ret[1]) = 2

\* the sub-tasks completed in main task `before` are completed in `after`,
\* position by position
StillCompleted(before, after) ==
    \A j \in 1..Len(before.sub_tasks) :
      before.sub_tasks[j].completed =>
        (j <= Len(after.sub_tasks) /\ after.sub_tasks[j].completed)

\* the same for the main tasks of two students, position by position
AllStillCompleted(before, after) ==
    \A i \in 1..Len(before.task_lists) :
      /\ i <= Len(after.task_lists)
      /\ StillCompleted(before.task_lists[i], after.task_lists[i])

\* C20: a sub-task that is completed stays completed through every core
\* operation for as long as it stays in its main task (a delete moves the
\* ones after the deleted position down by one); marking a completed
\* sub-task again leaves the state unchanged.
C20_CompletedIsMonotone ==
    [][/\ op' \in {"mark_sub_task_as_completed", "edit_sub_task", "add_sub_task",
                   "add_task_list", "edit_task_list", "mark_as_completed",
                   "view_all_sub_tasks"}
            => AllStillCompleted(student, student')
       /\ op' = "mark_sub_task_as_completed" =>
            \A i \in 1..Len(student.task_lists) :
              \A k \in 1..Len(student.task_lists[i].sub_tasks) :
                ( /\ MarkSubTaskAsCompletedCall(i, k)
                  /\ student.task_lists[i].sub_tasks[k].completed )
                => student' = student
       /\ op' = "delete_sub_task" =>
            \A i \in 1..Len(student.task_lists) :
              \A k \in Positions(student.task_lists[i].sub_tasks) :
                DeleteSubTaskCall(i, k) =>
                  IF raised' # "none" THEN student' = student
                  ELSE LET before == student.task_lists[i].sub_tasks
                           after == student'.task_lists[i].sub_tasks
                       IN  /\ \A j \in 1..(k - 1) :
                                before[j].completed => after[j].completed
                           /\ \A j \in (k + 1)..Len(before) :
                                before[j].completed => after[j - 1].completed
                           /\ \A h \in 1..Len(student.task_lists) :
                                h # i => StillCompleted(student.task_lists[h],
                                                        student'.task_lists[h])
       /\ op' = "delete_task_list" =>
            \A k \in Positions(student.task_lists) :
              DeleteTaskListCall(k) =>
                IF raised' # "none" THEN student' = student
                ELSE /\ \A h \in 1..(k - 1) :
                          StillCompleted(student.task_lists[h], student'.task_lists[h])
                     /\ \A h \in (k + 1)..Len(student.task_lists) :
                          StillCompleted(student.task_lists[h],
                                         student'.task_lists[h - 1])]_vars

\* C20 witness: a sub-task created completed, or marked completed, has been
\* edited (its details are the edited ones) and is still completed, next to
\* a sub-task that is not.
C20_Witness ==
    /\ op = "edit_sub_task"
    /\ raised = "none"
    /\ \E i \in 1..Len(student.task_lists) :
         /\ Len(student.task_lists[i].sub_tasks) = 2
         /\ student.task_lists[i].sub_tasks[1].completed
         /\ student.task_lists[i].sub_tasks[1].details = "Final"
         /\ ~student.task_lists[i].sub_tasks[2].completed

\* an argument that is provided: neither absent nor blank
Provided(x) == x # None /\ x # ""

FileIds == IF FileIsJson THEN DOMAIN FileData ELSE {}

\* C21: when main() is given a student id that exists in the store (the
\* durable file of the store holds a record of it when the run starts), the
\* menu is reached only after a password attempt of the run has verified
\* against the record looked up; at most three attempts are made; and after
\* three failed attempts the run has exited, the menu not reached and the
\* file not written.
C21_LoginGuardsMenu ==
    [][(op' = "main" /\ proc'[2] \in FileIds) =>
         /\ proc'[1] = "menu" => proc'[4]
         /\ proc'[3] <= MaxAttempts
         /\ (proc'[3] = MaxAttempts /\ ~proc'[4]) =>
              (proc'[1] = "exited" /\ file' = file)]_vars

\* The login loop of main() is never entered: no run asks for the password
\* of an account, because the store a run loads never holds a student.
C21_LoginLoopNotEntered ==
    op = "main" => (proc[3] = 0 /\ students \in {<<>>, proc[2] :> student})
====
